---- MODULE Spec2Model ----
(***************************************************************************)
(* xyzpy: the combination-evaluation core (gen/combo_runner.py, utils.py)  *)
(* and the merging of datasets (manage.py: aggregate).                     *)
(*                                                                         *)
(* One call of _combo_runner is a state machine: the branch is chosen from *)
(* the keyword arguments, the leaves are submitted one call at a time in   *)
(* the order Python evaluates nested_submit's list comprehensions, the     *)
(* backend completes tasks in any order, the leaves are collected by       *)
(* nested_get, and the call returns or raises.                             *)
(*                                                                         *)
(* A Python list and a Python tuple are both a TLA+ sequence; None is the  *)
(* string "none" (0 for num_workers).                                      *)
(***************************************************************************)
EXTENDS Integers, Sequences, FiniteSets, TLC

\* ----------------------------------------------------------------- bounds
\* number of combination entries (nesting depth) of a call
MaxDims == 2
\* length of one value sequence
MaxLen == 2
\* number of leaves n of a call whose completion orders are enumerated
MaxLeaves == 4

\* ------------------------------------------------------------ test inputs
\* the argument names of the functions the tests evaluate: foo3_scalar(a, b, c)
ArgNames == <<"a", "b", "c">>

RECURSIVE Pow10(_)
Pow10(d) == IF d = 0 THEN 1 ELSE 10 * Pow10(d - 1)

\* the j-th value of the d-th argument in the tests' combos:
\* a in [1, 2, ..], b in [10, 20, 30, ..], c in [100, 200, 300, 400, ..]
TestValue(d, j) == j * Pow10(d - 1)

\* combos = [('a', [1, 2]), ('b', [10, 20, 30]), ...] with the given lengths
TestCombos(shape) ==
    [d \in 1..Len(shape) |->
        <<ArgNames[d], [j \in 1..shape[d] |-> TestValue(d, j)]>>]

\* the shape of test_simple's combos: 2 x 3 x 4
TestShape == <<2, 3, 4>>

\* constants = {'b': 20, 'c': 300} for the arguments the combos leave out
TestConstant == [b |-> 20, c |-> 300]

\* the value a constant takes when its name is also a combination name
\* (distinct from every combination value of that name)
ShadowValue(d) == 9 * Pow10(d - 1)

\* ---------------------------------------------------------------- utils.py
\* prod(it): functools.reduce(operator.mul, it)
RECURSIVE prod(_)
prod(it) == IF Len(it) = 1 THEN it[1] ELSE it[1] * prod(Tail(it))

\* itertools.chain(*its)
RECURSIVE chain(_)
chain(its) == IF Len(its) = 0 THEN <<>> ELSE Head(its) \o chain(Tail(its))

\* flatten(its, n)
RECURSIVE flatten(_, _)
flatten(its, n) ==
    IF n > 1 THEN chain([i \in 1..Len(its) |-> flatten(its[i], n - 1)])
    ELSE its

\* zip(*its): as many tuples as the shortest argument has elements
ShortestLen(its) ==
    IF Len(its) = 0 THEN 0
    ELSE CHOOSE m \in {Len(its[i]) : i \in 1..Len(its)} :
             \A i \in 1..Len(its) : m <= Len(its[i])

zip(its) == [j \in 1..ShortestLen(its) |-> [i \in 1..Len(its) |-> its[i][j]]]

\* _unzipper leaving the inner levels as they are
unzipper_flat(its, zip_level) == its

\* unzip's inner _unzipper(its, zip_level)
RECURSIVE unzipper(_, _)
unzipper(its, zip_level) ==
    IF zip_level > 1
    THEN [i \in 1..Len(its) |-> zip(unzipper(its[i], zip_level - 1))]
    ELSE its

\* unzip(its, zip_level)
unzip(its, zip_level) ==
    IF zip_level # 0 THEN zip(unzipper(its, zip_level)) ELSE its

\* ------------------------------------------------------- the user function
\* an error: its type and the place that raised it
NoError == [type |-> "none", at |-> "none"]

Error(type, at) == [type |-> type, at |-> at]

\* the functions the tests evaluate: foo3_scalar(a, b, c) = a + b + c and
\* foo3_float_bool(a, b, c) = (a + b + c, a % 2 == 0)
Apply(kind, kw) ==
    IF kind = "foo3_scalar" THEN kw.a + kw.b + kw.c
    ELSE <<kw.a + kw.b + kw.c, kw.a % 2 = 0>>

\* fn(**kw) for the call numbered ord: the value, or the error fn raises there
\* (fun.failAt = 0: fn raises nowhere)
Invoke(fun, call) ==
    IF fun.failAt = call.ord
    THEN [ok |-> FALSE, val |-> 0, err |-> Error(fun.failType, "fn")]
    ELSE [ok |-> TRUE, val |-> Apply(fun.kind, call.kw), err |-> NoError]

\* a wrapper advancing the progress bar before it calls fn
update_upon_eval_early(out, p) == [out |-> out, pbar |-> p + 1]

\* update_upon_eval(fn, pbar)'s new_fn: fn is called, and once it has
\* returned the progress bar p is advanced; out is what the call of fn gives
update_upon_eval(out, p) == [out |-> out, pbar |-> IF out.ok THEN p + 1 ELSE p]

\* ------------------------------------------------------ submission engine
\* {**kwds, arg: x}
Merge(kwds, arg, x) ==
    [nm \in (DOMAIN kwds) \cup {arg} |-> IF nm = arg THEN x ELSE kwds[nm]]

\* the innermost call made with one merged mapping, f(**{**kwds, arg: x})
LeafCallMerged(kwds, arg, x, ord) ==
    [ord |-> ord, ok |-> TRUE, kw |-> Merge(kwds, arg, x)]

\* the innermost call expression f(**kwds, **{arg: x}), the ord-th call of
\* the recursion: Python refuses a keyword given twice (ok = FALSE)
LeafCall(kwds, arg, x, ord) ==
    [ord |-> ord, ok |-> arg \notin DOMAIN kwds, kw |-> Merge(kwds, arg, x)]

\* the innermost level overlooking delay
leaf_branch_no_delay(pool, delay) ==
    IF pool # "none" THEN "pool" ELSE "direct"

\* the innermost level of nested_submit, `if pool: ... elif delay: ...
\* else: ...`: the call is handed to the pool, or wrapped as a delayed node,
\* or made at once
leaf_branch(pool, delay) ==
    IF pool # "none" THEN "pool"
    ELSE IF delay THEN "delayed"
    ELSE "direct"

\* nested_submit binding every outer argument to its first value
RECURSIVE nested_submit_first(_, _, _)
nested_submit_first(combos, kwds, before) ==
    LET arg == combos[1][1]
        inputs == combos[1][2]
    IN  IF Len(combos) = 1
        THEN [i \in 1..Len(inputs) |-> LeafCall(kwds, arg, inputs[i], before + i)]
        ELSE LET rest == Tail(combos)
                 size == prod([d \in 1..Len(rest) |-> Len(rest[d][2])])
             IN  [i \in 1..Len(inputs) |->
                     nested_submit_first(rest, Merge(kwds, arg, inputs[1]),
                                         before + (i - 1) * size)]

\* nested_submit(fn, combos, kwds, ...): the nested lists of the calls it
\* makes; `before` counts the leaf calls made before this one starts
RECURSIVE nested_submit(_, _, _)
nested_submit(combos, kwds, before) ==
    LET arg == combos[1][1]
        inputs == combos[1][2]
    IN  IF Len(combos) = 1
        THEN [i \in 1..Len(inputs) |-> LeafCall(kwds, arg, inputs[i], before + i)]
        ELSE LET rest == Tail(combos)
                 size == prod([d \in 1..Len(rest) |-> Len(rest[d][2])])
             IN  [i \in 1..Len(inputs) |->
                     nested_submit(rest, Merge(kwds, arg, inputs[i]),
                                   before + (i - 1) * size)]

\* the pool-like objects a caller may pass, by the attributes they have and
\* the accessors of the handles they return
PoolAttrs(pool) ==
    CASE pool = "distributed" -> [attrs |-> {"scheduler", "submit"}, handle |-> {"result"}]
      [] pool = "executor"    -> [attrs |-> {"submit"}, handle |-> {"result"}]
      [] pool = "asyncpool"   -> [attrs |-> {"apply_async"}, handle |-> {"get"}]
      [] pool = "hybrid"      -> [attrs |-> {"submit"}, handle |-> {"result", "get"}]
      [] pool = "bare"        -> [attrs |-> {"submit"}, handle |-> {}]
      [] pool = "inert"       -> [attrs |-> {}, handle |-> {}]
      [] pool = "process"     -> [attrs |-> {"submit"}, handle |-> {"result"}]
      [] pool = "mpi"         -> [attrs |-> {"submit"}, handle |-> {"result"}]
      [] OTHER                -> [attrs |-> {}, handle |-> {}]

CallerPools == {"distributed", "executor", "asyncpool", "hybrid", "bare", "inert"}

\* default_submitter(pool, fn, **kwds): the pool method that took the task
default_submitter(pool) ==
    IF "submit" \in PoolAttrs(pool).attrs
    THEN [ok |-> TRUE, op |-> "submit", err |-> NoError]
    ELSE IF "apply_async" \in PoolAttrs(pool).attrs
    THEN [ok |-> TRUE, op |-> "apply_async", err |-> NoError]
    ELSE [ok |-> FALSE, op |-> "none", err |-> Error("AttributeError", "apply_async")]

\* ------------------------------------------------------ collection engine
\* future.result() or future.get(): the attribute is missing, or the task's
\* value is returned, or the task's error is raised again
Access(name, pool, out) ==
    IF name \notin PoolAttrs(pool).handle
    THEN [ok |-> FALSE, val |-> 0, err |-> Error("AttributeError", name)]
    ELSE out

\* what a getter call gives, with the accessors it called
Tried(res, names) ==
    [ok |-> res.ok, val |-> res.val, err |-> res.err, tried |-> names]

\* a getter that swallows what the accessors raise and returns a default
default_getter_swallow(pool, out) ==
    LET res == Access("result", pool, out)
        alt == IF ~res.ok /\ res.err.type = "AttributeError"
               THEN Tried(Access("get", pool, out), <<"result", "get">>)
               ELSE Tried(res, <<"result">>)
    IN  IF alt.ok THEN alt
        ELSE Tried([ok |-> TRUE, val |-> 0, err |-> NoError], alt.tried)

\* the getter default_getter builds: `try: res = future.result()`,
\* `except AttributeError: res = future.get()`
default_getter(pool, out) ==
    LET res == Access("result", pool, out)
    IN  IF ~res.ok /\ res.err.type = "AttributeError"
        THEN Tried(Access("get", pool, out), <<"result", "get">>)
        ELSE Tried(res, <<"result">>)

\* every default_getter built with the progress bar
getter_has_pbar_always(m) == m \in {"generic", "mpi", "process"}

\* the getter of a branch advances the progress bar: default_getter(pbar)
\* in the generic-pool and MPI branches, default_getter() in the process
\* branch, try_stored_then_result in the distributed branch
getter_has_pbar(m) == m \in {"generic", "mpi"}

\* nested_get filling every list from its far end
RECURSIVE nested_get_reversed(_, _, _)
nested_get_reversed(futures, ndim, getter) ==
    IF ndim = 1
    THEN [i \in 1..Len(futures) |-> getter[futures[Len(futures) + 1 - i]]]
    ELSE [i \in 1..Len(futures) |->
             nested_get_reversed(futures[Len(futures) + 1 - i], ndim - 1, getter)]

\* nested_get applying the getter to the first future of a list throughout
RECURSIVE nested_get_first(_, _, _)
nested_get_first(futures, ndim, getter) ==
    IF ndim = 1
    THEN [i \in 1..Len(futures) |-> getter[futures[1]]]
    ELSE [i \in 1..Len(futures) |-> nested_get_first(futures[i], ndim - 1, getter)]

\* nested_get(futures, ndim, getter), getter a function of the leaves
RECURSIVE nested_get(_, _, _)
nested_get(futures, ndim, getter) ==
    IF ndim = 1
    THEN [i \in 1..Len(futures) |-> getter[futures[i]]]
    ELSE [i \in 1..Len(futures) |-> nested_get(futures[i], ndim - 1, getter)]

\* ---------------------------------------------------- backend dispatcher
\* the chain asking for a scheduler before it asks for a pool
BranchSchedulerFirst(a) ==
    IF a.parallel = "dask" \/ a.scheduler # "none" THEN "dask"
    ELSE IF a.pool # "none"
    THEN IF "scheduler" \in PoolAttrs(a.pool).attrs THEN "distributed" ELSE "generic"
    ELSE IF a.parallel = "mpi" THEN "mpi"
    ELSE IF a.parallel # "False" \/ a.num_workers # 0 THEN "process"
    ELSE "sequential"

\* the branch of _combo_runner's if/elif chain the arguments select
Branch(a) ==
    IF a.pool # "none"
    THEN IF "scheduler" \in PoolAttrs(a.pool).attrs THEN "distributed" ELSE "generic"
    ELSE IF a.parallel = "mpi" THEN "mpi"
    ELSE IF a.parallel = "dask" \/ a.scheduler # "none" THEN "dask"
    ELSE IF a.parallel # "False" \/ a.num_workers # 0 THEN "process"
    ELSE "sequential"

\* dask_scheduler_get(scheduler, num_workers): the names it knows
SchedulerNames == {"threaded"}

dask_scheduler_get(name) ==
    IF name \in SchedulerNames
    THEN [ok |-> TRUE, get |-> "get", err |-> NoError]
    ELSE [ok |-> FALSE, get |-> "none", err |-> Error("ValueError", "scheduler")]

\* try_stored_then_result(future): the result the drain loop stored on the
\* future, else future.result()
try_stored_then_result(st, ord, out) ==
    IF ord \in DOMAIN st
    THEN [ok |-> TRUE, val |-> st[ord], err |-> NoError]
    ELSE out

\* the result kept by its place in the arrival order
StoredOnArrival(fut, arrival) == arrival

\* `f._stored_result = f.result()`: the future the drain loop stores the
\* result on, fut being the arrival-th future as_completed yields
StoredOn(fut, arrival) == fut

\* only the process pool is shut down
ReleaseProcessOnly(m, ps) ==
    IF m = "process" THEN [ps EXCEPT !.own = "closed"] ELSE ps

\* whatever pool was submitted to is shut down
ReleaseAny(m, ps) ==
    [own |-> IF ps.own = "none" THEN "none" ELSE "closed",
     caller |-> IF ps.caller = "none" THEN "none" ELSE "closed"]

\* leaving the `with ... as pool` block of a branch, by return or by raise:
\* the pool the call created is shut down, a caller's pool is left alone
Release(m, ps) ==
    IF m \in {"process", "mpi"} THEN [ps EXCEPT !.own = "closed"] ELSE ps

\* ------------------------------------------------------------------ state
VARIABLES
    pc,         \* where the call is: init, enter, submit, drain, collect,
                \* resolve, compute, return, returned, raised
    args,       \* the keyword arguments of the call, until the branch is chosen
    mode,       \* the branch chosen
    pool,       \* the pool submitted to: the caller's or the one created
    scheduler,  \* the local scheduler of the dask branch
    split,      \* the split flag
    combos, constants, fn,  \* what is evaluated
    submitLog,  \* the calls nested_submit has made, by number, in order
    done,       \* the calls whose fn(**kw) has run to its end
    yielded,    \* the futures as_completed has yielded
    f,          \* the loop variable of the drain loop: the last one yielded
    stored,     \* _stored_result of each future it was set on
    getLog,     \* the leaves nested_get has applied the getter to, in order
    got,        \* the value each leaf of the result tree holds
    pbar,       \* the progress count
    results,    \* the local results
    retval,     \* what the call returned
    error,      \* what the call raised
    pools,      \* [own, caller]: none, open or closed
    poolOps,    \* the methods called on the caller's pool
    uz,         \* a call of unzip on its own: [its, zip_level, out, pc]
    ag,         \* a call of aggregate: [datasets, overwrite, accept_newer,
                \* ds1, next, pc, error]
    batches,    \* the nodes handed to compute, call by call
    tried       \* the accessors the last getter call called on its future

vars == <<pc, args, mode, pool, scheduler, split, combos, constants, fn,
          submitLog, done, yielded, stored, getLog, got, pbar, results,
          retval, error, pools, poolOps, f, uz, ag, batches, tried>>

input == <<combos, constants, fn>>
branch == <<mode, pool, scheduler, split>>

\* no call of unzip on its own
NoUnzip == [its |-> <<>>, zip_level |-> 0, out |-> <<>>, pc |-> "none"]

\* no call of aggregate
NoAggregate == [pc |-> "none"]

\* the arguments once the branch is chosen and no line reads them any more
NoArgs == [pool |-> "none", parallel |-> "none", num_workers |-> 0,
           scheduler |-> "none", split |-> FALSE]

ArgSpace ==
    [pool : {"none"} \cup CallerPools,
     parallel : {"False", "True", "mpi", "dask"},
     num_workers : {0, 2},
     scheduler : {"none", "threaded", "z", "get"},
     split : BOOLEAN]

\* n = prod(len(x) for _, x in combos); ndim = len(combos)
n == prod([d \in 1..Len(combos) |-> Len(combos[d][2])])
ndim == Len(combos)

\* the calls of nested_submit(fn, combos, constants, ...), as nested lists,
\* and the one it makes s-th
calls == nested_submit(combos, constants, 0)
LeafSet == LET fl == flatten(calls, ndim) IN {fl[i] : i \in 1..Len(fl)}
CallNo(s) == CHOOSE c \in LeafSet : c.ord = s

\* the nested lists nested_submit returns: each call replaced by what it
\* returned (a value, a future, a delayed node)
RECURSIVE submitted(_, _, _)
submitted(cs, depth, leafOf) ==
    IF depth = 1
    THEN [i \in 1..Len(cs) |-> leafOf[cs[i].ord]]
    ELSE [i \in 1..Len(cs) |-> submitted(cs[i], depth - 1, leafOf)]

\* futures: the tree of futures, each named by the call it is the future of
futures == calls

\* jobs: the delayed nodes, each named by the call it wraps, as compute
\* finds them in the nested lists it is given
jobs == flatten(submitted(calls, ndim, [o \in 1..n |-> o]), ndim)

\* the leaves in the order nested_get(futures, ndim, getter) reaches them
GetOrder == flatten(nested_get(futures, ndim, [c \in LeafSet |-> c]), ndim)

\* the tree nested_get returns once the getter returned g[ord] for each leaf
Collected(g) == nested_get(futures, ndim, [c \in LeafSet |-> g[c.ord]])

Submitted == {submitLog[i] : i \in 1..Len(submitLog)}

\* the nodes the b-th call of compute was given
Batch(b) == {batches[b][i] : i \in 1..Len(batches[b])}

\* --------------------------------------------------------------- inputs
Shapes ==
    {s \in UNION {[1..k -> 1..MaxLen] : k \in 1..MaxDims} : prod(s) <= MaxLeaves}

\* sequential evaluation enumerates no completion order: test_simple's
\* 2 x 3 x 4 grid is evaluated there as well
ShapesOf(m) == IF m = "sequential" THEN Shapes \cup {TestShape} ELSE Shapes

\* the constants: the arguments the combos leave out, and, shadow > 0, a
\* constant named like the shadow-th combination argument
Constants(k, shadow) ==
    [nm \in {ArgNames[d] : d \in (k + 1)..Len(ArgNames)}
            \cup (IF shadow > 0 THEN {ArgNames[shadow]} ELSE {}) |->
        IF shadow > 0 /\ nm = ArgNames[shadow] THEN ShadowValue(shadow)
        ELSE TestConstant[nm]]

Fns(leaves) ==
    {[kind |-> k, failAt |-> 0, failType |-> "none"] :
        k \in {"foo3_scalar", "foo3_float_bool"}}
    \cup [kind : {"foo3_scalar", "foo3_float_bool"}, failAt : 1..leaves,
          failType : {"ValueError", "AttributeError"}]

Init ==
    /\ pc = "init"
    /\ args \in ArgSpace
    /\ mode = "none" /\ pool = "none" /\ scheduler = "none" /\ split = FALSE
    /\ combos = <<>> /\ constants = <<>>
    /\ fn = [kind |-> "none", failAt |-> 0, failType |-> "none"]
    /\ submitLog = <<>> /\ done = {} /\ yielded = {} /\ stored = <<>>
    /\ getLog = <<>> /\ got = <<>> /\ pbar = 0
    /\ results = <<>> /\ retval = <<>> /\ error = NoError
    /\ pools = [own |-> "none",
                caller |-> IF args.pool = "none" THEN "none" ELSE "open"]
    /\ poolOps = {}
    /\ f = 0
    /\ uz = NoUnzip
    /\ ag = NoAggregate
    /\ batches = <<>>
    /\ tried = <<>>

\* the call raises e: the with-blocks are left, nothing is returned
Raise(e) ==
    /\ pc' = "raised"
    /\ error' = e
    /\ pools' = Release(mode, pools)
    /\ UNCHANGED <<results, retval>>

\* _combo_runner(fn, combos, constants, ...) is called: the conditions of
\* the if/elif chain are evaluated top down and one branch is taken
Dispatch ==
    /\ pc = "init"
    /\ mode' = Branch(args)
    /\ pc' = "enter"
    /\ UNCHANGED <<args, pool, scheduler, split, input, submitLog, done,
                   yielded, stored, getLog, got, pbar, results, retval, error,
                   pools, poolOps, f, uz, ag, batches, tried>>

\* the body of the branch taken is entered with fn, combos, constants, n and
\* ndim; the process and MPI branches create a pool
Enter ==
    /\ pc = "enter"
    /\ \E shape \in ShapesOf(mode) :
       \E shadow \in 0..Len(shape) :
       \E fun \in Fns(prod(shape)) :
          /\ combos' = TestCombos(shape)
          /\ constants' = Constants(Len(shape), shadow)
          /\ fn' = fun
    /\ mode' = mode
    /\ pool' = IF args.pool # "none" THEN args.pool
               ELSE IF mode \in {"process", "mpi"} THEN mode ELSE "none"
    /\ scheduler' = IF mode = "dask" THEN args.scheduler ELSE "none"
    /\ split' = args.split
    /\ pools' = IF mode \in {"process", "mpi"}
                THEN [pools EXCEPT !.own = "open"] ELSE pools
    /\ args' = NoArgs
    /\ pc' = "submit"
    /\ UNCHANGED <<submitLog, done, yielded, stored, getLog, got, pbar,
                   results, retval, error, poolOps, f, uz, ag, batches, tried>>

\* the dask branch handing the scheduler to compute as it was given
AfterSubmitUnresolved(m) ==
    CASE m \in {"distributed", "process"} -> "drain"
      [] m \in {"generic", "mpi"} -> "collect"
      [] m = "dask" -> "compute"
      [] OTHER -> "return"

\* the process branch collecting without the as_completed loop
AfterSubmitUndrained(m) ==
    CASE m = "distributed" -> "drain"
      [] m \in {"generic", "mpi", "process"} -> "collect"
      [] m = "dask" -> "resolve"
      [] OTHER -> "return"

\* where a branch goes once nested_submit has returned
AfterSubmit(m) ==
    CASE m \in {"distributed", "process"} -> "drain"
      [] m \in {"generic", "mpi"} -> "collect"
      [] m = "dask" -> "resolve"
      [] OTHER -> "return"

\* nested_submit reaches its next innermost call: fn runs at once
\* (sequential, wrapped by update_upon_eval), or is wrapped as a delayed
\* node (dask), or is handed to the pool by default_submitter
Submit ==
    /\ pc = "submit"
    /\ LET s == Len(submitLog) + 1
           call == CallNo(s)
           out == Invoke(fn, call)
           wrapped == update_upon_eval(out, pbar)
           sub == default_submitter(pool)
           how == leaf_branch(pool, mode = "dask")
           last == (s = n)
       IN  IF ~call.ok
           THEN /\ Raise(Error("TypeError", "kwargs"))
                /\ UNCHANGED <<submitLog, done, got, pbar, poolOps>>
           ELSE IF how = "direct"
           THEN /\ submitLog' = Append(submitLog, s)
                /\ done' = done \cup {s}
                /\ poolOps' = poolOps
                /\ pbar' = wrapped.pbar
                /\ IF wrapped.out.ok
                   THEN /\ got' = got @@ (s :> wrapped.out.val)
                        /\ pc' = IF last THEN "return" ELSE "submit"
                        /\ results' = IF last THEN submitted(calls, ndim, got')
                                      ELSE results
                        /\ UNCHANGED <<retval, error, pools>>
                   ELSE /\ Raise(wrapped.out.err)
                        /\ UNCHANGED got
           ELSE IF how = "delayed"
           THEN /\ submitLog' = Append(submitLog, s)
                /\ pc' = IF last THEN AfterSubmit(mode) ELSE "submit"
                /\ UNCHANGED <<done, got, pbar, poolOps, results, retval,
                               error, pools>>
           ELSE IF sub.ok
           THEN /\ submitLog' = Append(submitLog, s)
                /\ poolOps' = IF pools.caller # "none"
                              THEN poolOps \cup {sub.op} ELSE poolOps
                /\ pc' = IF last THEN AfterSubmit(mode) ELSE "submit"
                /\ UNCHANGED <<done, got, pbar, results, retval, error, pools>>
           ELSE /\ Raise(sub.err)
                /\ UNCHANGED <<submitLog, done, got, pbar, poolOps>>
    /\ UNCHANGED <<args, branch, input, yielded, stored, getLog, f, uz, ag,
                   batches, tried>>

\* `for f in as_completed(flatten(futures, ndim))`: the next future to
\* complete, whichever it is; the distributed branch stores f.result() on
\* it, the process branch only counts it
Drain ==
    /\ pc = "drain"
    /\ \E fut \in Submitted \ yielded :
          LET out == Invoke(fn, CallNo(fut))
              arrival == Cardinality(yielded) + 1
              last == (arrival = n)
          IN  /\ f' = fut
              /\ yielded' = yielded \cup {fut}
              /\ done' = done \cup {fut}
              /\ IF mode = "distributed" /\ ~out.ok
                 THEN /\ Raise(out.err)
                      /\ UNCHANGED <<stored, pbar>>
                 ELSE /\ stored' = IF mode = "distributed"
                                   THEN stored @@ (StoredOn(fut, arrival) :> out.val)
                                   ELSE stored
                      /\ pbar' = pbar + 1
                      /\ pc' = IF last THEN "collect" ELSE "drain"
                      /\ UNCHANGED <<results, retval, error, pools>>
    /\ UNCHANGED <<args, branch, input, submitLog, getLog, got, poolOps, uz,
                   ag, batches, tried>>

\* nested_get applies the getter to its next leaf: try_stored_then_result
\* (distributed), default_getter(pbar) (generic, mpi), default_getter()
\* (process); after the last leaf the with-blocks are left
Collect ==
    /\ pc = "collect"
    /\ LET i == Len(getLog) + 1
           fut == GetOrder[i]
           out == Invoke(fn, fut)
           res == IF mode = "distributed"
                  THEN try_stored_then_result(stored, fut.ord, out)
                  ELSE default_getter(pool, out)
           last == (i = n)
       IN  /\ getLog' = Append(getLog, fut.ord)
           /\ tried' = IF mode = "distributed" THEN tried ELSE res.tried
           /\ done' = IF PoolAttrs(pool).handle = {} THEN done
                      ELSE done \cup {fut.ord}
           /\ IF res.ok
              THEN /\ got' = got @@ (fut.ord :> res.val)
                   /\ pbar' = IF getter_has_pbar(mode) THEN pbar + 1 ELSE pbar
                   /\ pc' = IF last THEN "return" ELSE "collect"
                   /\ results' = IF last THEN Collected(got') ELSE results
                   /\ pools' = IF last THEN Release(mode, pools) ELSE pools
                   /\ UNCHANGED <<retval, error>>
              ELSE /\ Raise(res.err)
                   /\ UNCHANGED <<got, pbar>>
    /\ UNCHANGED <<args, branch, input, submitLog, yielded, stored, poolOps,
                   f, uz, ag, batches>>

\* the dask branch, jobs built: a scheduler given by name is looked up, and
\* compute(*jobs, ...) is called with every node of jobs
ResolveScheduler ==
    /\ pc = "resolve"
    /\ LET byName == scheduler \notin {"none", "get"}
           found == dask_scheduler_get(scheduler)
       IN  IF byName /\ ~found.ok
           THEN /\ Raise(found.err)
                /\ UNCHANGED <<scheduler, batches>>
           ELSE /\ scheduler' = IF byName THEN found.get ELSE scheduler
                /\ batches' = Append(batches, jobs)
                /\ pc' = "compute"
                /\ UNCHANGED <<results, retval, error, pools>>
    /\ UNCHANGED <<args, mode, pool, split, input, submitLog, done, yielded,
                   stored, getLog, got, pbar, poolOps, f, uz, ag, tried>>

\* compute(*jobs, get=scheduler, num_workers=num_workers) runs the next
\* node, whichever it is; the first error ends it
Compute ==
    /\ pc = "compute"
    /\ batches # <<>>
    /\ \E node \in Batch(Len(batches)) \ done :
          LET out == Invoke(fn, CallNo(node))
              last == (done \cup {node} = Batch(Len(batches)))
          IN  /\ done' = done \cup {node}
              /\ IF out.ok
                 THEN /\ got' = got @@ (node :> out.val)
                      /\ pc' = IF last THEN "return" ELSE "compute"
                      /\ results' = IF last THEN submitted(calls, ndim, got')
                                    ELSE results
                      /\ UNCHANGED <<retval, error, pools>>
                 ELSE /\ Raise(out.err)
                      /\ UNCHANGED got
    /\ UNCHANGED <<args, branch, input, submitLog, yielded, stored, getLog,
                   pbar, poolOps, f, uz, ag, batches, tried>>

\* `return list(unzip(results, ndim)) if split else results`; zip refuses
\* leaves that are no tuples
Return ==
    /\ pc = "return"
    /\ IF split /\ fn.kind = "foo3_scalar"
       THEN Raise(Error("TypeError", "zip"))
       ELSE /\ retval' = IF split THEN unzip(results, ndim) ELSE results
            /\ pc' = "returned"
            /\ UNCHANGED <<results, error, pools>>
    /\ UNCHANGED <<args, branch, input, submitLog, done, yielded, stored,
                   getLog, got, pbar, poolOps, f, uz, ag, batches, tried>>

Next == Dispatch \/ Enter \/ Submit \/ Drain \/ Collect \/ ResolveScheduler \/ Compute \/ Return

Spec == Init /\ [][Next]_vars

\* ------------------------------------------------ unzip called on its own
\* the leaf tuples of arity k whose components are 0 or 1
Bits == {0, 1}

\* the arity of the leaf tuples
MaxArity == 2

\* a tree of the given shape whose leaf numbered o (row-major) is leafOf[o]
TreeOf(shape, leafOf) ==
    submitted(nested_submit(TestCombos(shape), <<>>, 0), Len(shape), leafOf)

\* unzip(its, zip_level) is called with zip_level the depth of its, or 0
InitUnzip ==
    /\ \E shape \in Shapes :
       \E k \in 1..MaxArity :
       \E leafOf \in [1..prod(shape) -> [1..k -> Bits]] :
       \E lvl \in {0, Len(shape)} :
          uz = [its |-> TreeOf(shape, leafOf), zip_level |-> lvl, out |-> <<>>,
                pc |-> "call", shape |-> shape, arity |-> k]
    /\ pc = "none"
    /\ args = NoArgs
    /\ mode = "none" /\ pool = "none" /\ scheduler = "none" /\ split = FALSE
    /\ combos = <<>> /\ constants = <<>>
    /\ fn = [kind |-> "none", failAt |-> 0, failType |-> "none"]
    /\ submitLog = <<>> /\ done = {} /\ yielded = {} /\ stored = <<>>
    /\ getLog = <<>> /\ got = <<>> /\ pbar = 0
    /\ results = <<>> /\ retval = <<>> /\ error = NoError
    /\ pools = [own |-> "none", caller |-> "none"]
    /\ poolOps = {}
    /\ f = 0
    /\ ag = NoAggregate
    /\ batches = <<>>
    /\ tried = <<>>

Unzip ==
    /\ uz.pc = "call"
    /\ uz' = [uz EXCEPT !.out = unzip(uz.its, uz.zip_level), !.pc = "done"]
    /\ UNCHANGED <<pc, args, branch, input, submitLog, done, yielded, stored,
                   getLog, got, pbar, results, retval, error, pools, poolOps,
                   f, ag, batches, tried>>

NextUnzip == Unzip

SpecUnzip == InitUnzip /\ [][NextUnzip]_vars

\* ------------------------------------------------- manage.py: aggregate
\* An xarray Dataset is [coords, data]: the coordinate labels of its one
\* dimension and, for each data variable, a value or NaN at every label.
\* number of coordinate labels
MaxCoords == 2
\* number of datasets of a call
MaxSets == 3

\* the null value align pads with
NaN == 0

DataVars == {"x", "y"}
DataVals == {1, 2}

\* ds reindexed to the labels cs, NaN where it has no value
Reindex(ds, cs) ==
    [coords |-> cs,
     data |-> [v \in DOMAIN ds.data |->
                  [c \in cs |-> IF c \in ds.coords THEN ds.data[v][c] ELSE NaN]]]

\* xr.align(a, b, join='outer')
align(a, b) ==
    LET cs == a.coords \cup b.coords IN <<Reindex(a, cs), Reindex(b, cs)>>

\* nonnull_compatible(first, second)
nonnull_compatible(first, second) ==
    \A v \in (DOMAIN first.data) \cap (DOMAIN second.data) :
        \A c \in first.coords :
            (first.data[v][c] # NaN /\ second.data[v][c] # NaN) =>
                first.data[v][c] = second.data[v][c]

\* x.fillna(y)
fillna(x, y) == [c \in DOMAIN x |-> IF x[c] = NaN THEN y[c] ELSE x[c]]

\* `ds1, ds2 = (xr.align(ds1, ds2, join='outer') if accept_newer else
\*              xr.align(ds2, ds1, join='outer'))`
Aligned(ds1, ds2, accept_newer) ==
    IF accept_newer THEN align(ds1, ds2) ELSE align(ds2, ds1)

\* the body of aggregate's loop once the two are aligned: the common
\* variables of ds1 are filled from ds2, the variables only ds2 has are added
Merged(ds1, ds2) ==
    [coords |-> ds1.coords,
     data |-> [v \in (DOMAIN ds1.data) \cup (DOMAIN ds2.data) |->
                  IF v \in DOMAIN ds1.data
                  THEN IF v \in DOMAIN ds2.data
                       THEN fillna(ds1.data[v], ds2.data[v])
                       ELSE ds1.data[v]
                  ELSE ds2.data[v]]]

\* the datasets a call is given: one data variable each, values at some labels
Datasets ==
    UNION {[coords : {cs}, data : {v :> vals : v \in DataVars, vals \in [cs -> DataVals]}] :
              cs \in SUBSET (1..MaxCoords)}

\* aggregate(*datasets, overwrite, accept_newer) is called:
\* `ds1 = next(datasets)`
InitAggregate ==
    /\ \E k \in 2..MaxSets :
       \E dss \in [1..k -> Datasets] :
       \E ow \in BOOLEAN :
       \E newer \in BOOLEAN :
          ag = [pc |-> "loop", datasets |-> dss, overwrite |-> ow,
                accept_newer |-> newer, ds1 |-> dss[1], next |-> 2,
                error |-> NoError]
    /\ pc = "none"
    /\ args = NoArgs
    /\ mode = "none" /\ pool = "none" /\ scheduler = "none" /\ split = FALSE
    /\ combos = <<>> /\ constants = <<>>
    /\ fn = [kind |-> "none", failAt |-> 0, failType |-> "none"]
    /\ submitLog = <<>> /\ done = {} /\ yielded = {} /\ stored = <<>>
    /\ getLog = <<>> /\ got = <<>> /\ pbar = 0
    /\ results = <<>> /\ retval = <<>> /\ error = NoError
    /\ pools = [own |-> "none", caller |-> "none"]
    /\ poolOps = {}
    /\ f = 0
    /\ uz = NoUnzip
    /\ batches = <<>>
    /\ tried = <<>>

\* `for ds2 in datasets:` one pass of the loop
AggregateNext ==
    /\ ag.pc = "loop"
    /\ ag.next <= Len(ag.datasets)
    /\ LET pair == Aligned(ag.ds1, ag.datasets[ag.next], ag.accept_newer)
       IN  IF ~ag.overwrite /\ ~nonnull_compatible(pair[1], pair[2])
           THEN ag' = [ag EXCEPT !.pc = "raised",
                                 !.error = Error("ValueError", "aggregate")]
           ELSE ag' = [ag EXCEPT !.ds1 = Merged(pair[1], pair[2]),
                                 !.next = @ + 1]
    /\ UNCHANGED <<pc, args, branch, input, submitLog, done, yielded, stored,
                   getLog, got, pbar, results, retval, error, pools, poolOps,
                   f, uz, batches, tried>>

\* `return ds1`
AggregateReturn ==
    /\ ag.pc = "loop"
    /\ ag.next > Len(ag.datasets)
    /\ ag' = [ag EXCEPT !.pc = "returned"]
    /\ UNCHANGED <<pc, args, branch, input, submitLog, done, yielded, stored,
                   getLog, got, pbar, results, retval, error, pools, poolOps,
                   f, uz, batches, tried>>

NextAggregate == AggregateNext \/ AggregateReturn

SpecAggregate == InitAggregate /\ [][NextAggregate]_vars

\* ------------------------------------------------------------ properties
\* the element of a nested sequence at an index tuple
RECURSIVE At(_, _)
At(tree, idx) == IF Len(idx) = 0 THEN tree ELSE At(tree[Head(idx)], Tail(idx))

\* a nested sequence has the given lengths, level by level
RECURSIVE HasShape(_, _)
HasShape(tree, lens) ==
    /\ Len(tree) = Head(lens)
    /\ Len(lens) > 1 => \A i \in 1..Len(tree) : HasShape(tree[i], Tail(lens))

Lens == [d \in 1..ndim |-> Len(combos[d][2])]

Widest(lens) ==
    CHOOSE w \in {lens[d] : d \in 1..Len(lens)} : \A d \in 1..Len(lens) : lens[d] <= w

IndicesOf(lens) ==
    {idx \in [1..Len(lens) -> 1..Widest(lens)] :
        \A d \in 1..Len(lens) : idx[d] <= lens[d]}

CombNames == {combos[d][1] : d \in 1..ndim}

\* fn's keyword arguments for an index tuple: the constants, and
\* n_d = v_d[i_d] for every combination entry
KwAt(idx) ==
    [nm \in (DOMAIN constants) \cup CombNames |->
        IF nm \in CombNames
        THEN LET d == CHOOSE e \in 1..ndim : combos[e][1] = nm
             IN  combos[d][2][idx[d]]
        ELSE constants[nm]]

Disjoint == (DOMAIN constants) \cap CombNames = {}

\* C1: with constants disjoint from the combination names, a call that
\* returns without split returns a k-level nested structure whose dimension
\* d has length len(v_d) and whose element at (i1, ..., ik) is
\* fn(**constants, n1=v1[i1], ..., nk=vk[ik]); a + b + c over [1, 2],
\* [10, 20, 30], [100, 200, 300, 400] gives 111 at (0,0,0) and 432 at
\* (1,2,3), and [('a', [1, 2])] with {b: 20, c: 300} gives [321, 322]
C1_GridOfValues ==
    (pc = "returned" /\ ~split /\ Disjoint) =>
        /\ HasShape(retval, Lens)
        /\ \A idx \in IndicesOf(Lens) : At(retval, idx) = Apply(fn.kind, KwAt(idx))
        /\ (combos = TestCombos(TestShape) /\ fn.kind = "foo3_scalar") =>
               /\ retval[1][1][1] = 111
               /\ retval[2][3][4] = 432
        /\ (combos = TestCombos(<<2>>) /\ fn.kind = "foo3_scalar") =>
               retval = <<321, 322>>

C1_Witness ==
    /\ pc = "returned" /\ ~split /\ Disjoint
    /\ combos = TestCombos(TestShape)
    /\ fn.kind = "foo3_scalar"
    /\ retval[2][3][4] = 432

\* what the sequential branch computes for the same fn, combos, constants
SeqTree ==
    LET leaves == LeafSet
        kwOf == [o \in 1..n |-> (CHOOSE c \in leaves : c.ord = o).kw]
    IN  submitted(calls, ndim, [o \in 1..n |-> Apply(fn.kind, kwOf[o])])

\* C2: whatever branch ran (sequential, process pool, a caller's pool, MPI
\* pool, dask) and in whatever order the tasks completed, the tree a call
\* returns is, flattened, the tree sequential evaluation gives
C2_ModeIndependent ==
    pc = "returned" =>
        LET seq == SeqTree
            parts == unzip(seq, ndim)
        IN  IF split
            THEN /\ Len(retval) = Len(parts)
                 /\ \A j \in 1..Len(retval) :
                        flatten(retval[j], ndim) = flatten(parts[j], ndim)
            ELSE flatten(retval, ndim) = flatten(seq, ndim)

C2_Witness ==
    /\ pc = "returned" /\ mode = "process" /\ ~split
    /\ n = MaxLeaves /\ ndim = 2
    /\ f # n
    /\ flatten(retval, ndim) = flatten(SeqTree, ndim)

C4_ErrorUnchanged ==
    (/\ pc = "raised"
     /\ mode \in {"generic", "mpi", "process"}
     /\ PoolAttrs(pool).handle # {}
     /\ getLog # <<>>
     /\ getLog[Len(getLog)] = fn.failAt) => error = Error(fn.failType, "fn")

\* C5: the pool a call created (process, mpi) is open while the call
\* submits, drains and collects, and shut down in every state the call can
\* end in, returned or raised
C5_OwnPoolReleased ==
    IF mode \in {"process", "mpi"}
    THEN /\ pc \in {"submit", "drain", "collect"} => pools.own = "open"
         /\ pc \in {"return", "returned", "raised"} => pools.own = "closed"
    ELSE pools.own = "none"

C5_Witness ==
    /\ mode = "mpi" /\ pc = "raised"
    /\ error = Error("ValueError", "fn")
    /\ Len(getLog) > 1
    /\ pools.own = "closed"

\* C6: a pool the caller passed stays open through the call, returned or
\* raised, and the only methods called on it submit tasks
C6_CallerPoolUntouched ==
    /\ pools.caller \in {"none", "open"}
    /\ poolOps \subseteq {"submit", "apply_async"}
    /\ (pc \notin {"init", "enter"} /\ mode \in {"distributed", "generic"}) =>
           pools.caller = "open"

C6_Witness ==
    /\ mode = "generic" /\ pc = "raised"
    /\ error = Error("ValueError", "fn")
    /\ poolOps = {"submit"}
    /\ pools.caller = "open"

\* C7: in the branches that drain in arrival order (distributed, process),
\* whatever the order, the tree collected has the shape of the grid and
\* holds at every index the value of the task submitted for that index
C7_PlacedByIndex ==
    (mode \in {"distributed", "process"} /\ pc \in {"return", "returned"}) =>
        LET futs == futures
        IN  /\ HasShape(results, Lens)
            /\ \A idx \in IndicesOf(Lens) :
                   /\ At(futs, idx).kw = KwAt(idx)
                   /\ At(results, idx) = Invoke(fn, At(futs, idx)).val

C7_Witness ==
    /\ mode = "distributed" /\ pc = "returned"
    /\ n > 2
    /\ f = 1
    /\ At(results, <<1, 1>>) = Invoke(fn, CallNo(1)).val

\* C8: unzip(tree, d) of a depth-d tree of arity-k leaf tuples is exactly
\* k trees of the shape of the input, tree j holding component j of the
\* leaf at every coordinate, so that zipping the leaves back gives the
\* input; unzip(tree, 0) is the input
C8_UnzipInverse ==
    uz.pc = "done" =>
        IF uz.zip_level = 0
        THEN uz.out = uz.its
        ELSE /\ Len(uz.out) = uz.arity
             /\ \A j \in 1..uz.arity :
                    /\ HasShape(uz.out[j], uz.shape)
                    /\ \A idx \in IndicesOf(uz.shape) :
                           At(uz.out[j], idx) = At(uz.its, idx)[j]
             /\ \A idx \in IndicesOf(uz.shape) :
                    [j \in 1..uz.arity |-> At(uz.out[j], idx)] = At(uz.its, idx)

C8_Witness ==
    /\ uz.pc = "done"
    /\ uz.zip_level = 2 /\ uz.shape = <<2, 2>> /\ uz.arity = 2
    /\ At(uz.its, <<1, 2>>) = <<0, 1>>
    /\ At(uz.its, <<2, 1>>) = <<1, 1>>
    /\ uz.out = << <<<<0, 0>>, <<1, 0>>>>, <<<<0, 1>>, <<1, 0>>>> >>

\* the place of an index tuple in row-major order
RECURSIVE RowMajor(_, _)
RowMajor(idx, lens) ==
    IF Len(idx) = 1 THEN idx[1]
    ELSE (idx[1] - 1) * prod(Tail(lens)) + RowMajor(Tail(idx), Tail(lens))

NoRepeat(log) == \A i, j \in 1..Len(log) : i # j => log[i] # log[j]

\* C9: nested_get applies the getter to each leaf once, in row-major order:
\* no leaf twice, the leaf at an index tuple is reached at that tuple's
\* row-major place, and when it returns it has made prod(len(v_d)) calls
\* and its result has the shape of the tree it was given
C9_EachLeafOnce ==
    (getLog # <<>> /\ mode \in {"distributed", "generic", "mpi", "process"}) =>
        LET futs == futures
        IN  /\ NoRepeat(getLog)
            /\ Len(getLog) <= n
            /\ \A idx \in IndicesOf(Lens) :
                   RowMajor(idx, Lens) <= Len(getLog) =>
                       getLog[RowMajor(idx, Lens)] = At(futs, idx).ord
            /\ pc \in {"return", "returned"} =>
                   /\ Len(getLog) = prod(Lens)
                   /\ HasShape(futs, Lens)
                   /\ HasShape(results, Lens)

C9_Witness ==
    /\ mode = "generic" /\ pc = "returned"
    /\ Lens = <<2, 2>>
    /\ getLog = <<1, 2, 3, 4>>
    /\ HasShape(results, Lens)

\* C10: the call holds a result tree only when no leaf failed; a call that
\* raised returned nothing, a call that returned raised nothing; and no
\* call is submitted twice, no leaf resolved twice
C10_AllOrNothing ==
    /\ results # <<>> => fn.failAt = 0
    /\ pc = "returned" => (error = NoError /\ fn.failAt = 0 /\ retval # <<>>)
    /\ pc = "raised" => (error # NoError /\ retval = <<>>)
    /\ retval # <<>> => pc = "returned"
    /\ NoRepeat(submitLog)
    /\ NoRepeat(getLog)

C10_Witness ==
    /\ mode = "generic" /\ pc = "raised"
    /\ fn.failAt = 3
    /\ error = Error("ValueError", "fn")
    /\ DOMAIN got = {1, 2}
    /\ results = <<>> /\ retval = <<>>

\* the conditions of the branches, by rank, and the mode of each rank
Modes == <<"distributed", "generic", "mpi", "dask", "process", "sequential">>

Asks(a, rank) ==
    CASE rank = 1 -> a.pool # "none" /\ "scheduler" \in PoolAttrs(a.pool).attrs
      [] rank = 2 -> a.pool # "none"
      [] rank = 3 -> a.parallel = "mpi"
      [] rank = 4 -> a.parallel = "dask" \/ a.scheduler # "none"
      [] rank = 5 -> a.parallel \in {"True", "mpi", "dask"} \/ a.num_workers # 0
      [] OTHER -> TRUE

\* C11: a call selects one mode, the mode of the lowest rank whose condition
\* its arguments meet (1 pool with a scheduler attribute, 2 pool, 3 parallel
\* == 'mpi', 4 parallel == 'dask' or a scheduler, 5 parallel or num_workers,
\* 6 none of these), whatever lower-ranked settings come with it, and the
\* mode selected stays the call's mode
C11_FirstMatchWins ==
    [][/\ pc = "init" =>
              \E rank \in 1..6 :
                  /\ Asks(args, rank)
                  /\ \A higher \in 1..(rank - 1) : ~Asks(args, higher)
                  /\ mode' = Modes[rank]
       /\ pc # "init" => mode' = mode]_vars

C11_Witness ==
    /\ pc = "enter"
    /\ args.pool = "executor" /\ args.parallel = "mpi"
    /\ args.scheduler = "threaded" /\ args.num_workers = 2
    /\ mode = "generic"

\* the datasets of the call that hold a non-null value of variable v at
\* label c, by their place in the argument order
Holders(v, c) ==
    {i \in 1..Len(ag.datasets) :
        /\ v \in DOMAIN ag.datasets[i].data
        /\ c \in ag.datasets[i].coords
        /\ ag.datasets[i].data[v][c] # NaN}

Earliest(is) == CHOOSE i \in is : \A j \in is : i <= j
Latest(is) == CHOOSE i \in is : \A j \in is : j <= i

\* C12: aggregate with overwrite=True returns, at every label where two or
\* more of the datasets hold differing non-null values of a variable, the
\* value of the dataset latest in the argument order when accept_newer=True
\* and the value of the earliest one when accept_newer=False, for any
\* number of datasets
C12_NewerPreferred ==
    (ag.pc = "returned" /\ ag.overwrite) =>
        \A v \in DataVars : \A c \in 1..MaxCoords :
            LET hs == Holders(v, c)
            IN  (\E i, j \in hs : ag.datasets[i].data[v][c] # ag.datasets[j].data[v][c]) =>
                    LET pick == IF ag.accept_newer THEN Latest(hs) ELSE Earliest(hs)
                    IN  ag.ds1.data[v][c] = ag.datasets[pick].data[v][c]

\* the calls, among those numbered in set, that return a value
Returned(leaves, set) == {c \in leaves : c.ord \in set /\ Invoke(fn, c).ok}

\* C13: in sequential mode fn is called while nested_submit builds the
\* tree: the k-th call is the call for the index tuple at row-major place k
\* (last argument fastest), every call made has ended before the next is
\* made, the progress count is the number of calls that have returned, at
\* most one behind the number of calls made and behind only when the last
\* one raised, and all n calls and n advances have happened when the
\* submission step returns; nothing is drained or collected
C13_SequentialInOrder ==
    (mode = "sequential" /\ pc \notin {"init", "enter"}) =>
        /\ \A k \in 1..Len(submitLog) : submitLog[k] = k
        /\ LET leaves == LeafSet
           IN  /\ \A idx \in IndicesOf(Lens) :
                      RowMajor(idx, Lens) <= Len(submitLog) =>
                          \E c \in leaves :
                              /\ c.ord = submitLog[RowMajor(idx, Lens)]
                              /\ c.kw = KwAt(idx)
               /\ pbar = Cardinality(Returned(leaves, done))
        /\ done = Submitted
        /\ pbar <= Len(submitLog) /\ Len(submitLog) <= pbar + 1
        /\ pbar < Len(submitLog) => (pc = "raised" /\ error = Error(fn.failType, "fn"))
        /\ pc = "submit" => Len(submitLog) < n
        /\ pc \in {"return", "returned"} => (pbar = n /\ Len(submitLog) = n)
        /\ yielded = {} /\ getLog = <<>>

C13_Witness ==
    /\ mode = "sequential" /\ pc = "submit"
    /\ combos = TestCombos(TestShape)
    /\ Len(submitLog) = 6 /\ pbar = 6
    /\ CallNo(5).kw = [a |-> 1, b |-> 20, c |-> 100]
    /\ CallNo(6).kw = [a |-> 1, b |-> 20, c |-> 200]
    /\ DOMAIN got = 1..6

\* C14: in dask mode nested_submit(delay=True) calls fn not once: while
\* the nodes are built and the scheduler is resolved no call of fn has run;
\* when it has returned there is one node for each of the n index tuples,
\* carrying that tuple's keyword arguments; compute is called at most once,
\* with all n nodes, each once, and every call of fn that has run belongs
\* to that call of compute
C14_DeferredUntilCompute ==
    (mode = "dask" /\ pc \notin {"init", "enter"}) =>
        /\ pc \in {"submit", "resolve"} => (done = {} /\ batches = <<>> /\ got = <<>>)
        /\ NoRepeat(submitLog)
        /\ pc = "submit" => Len(submitLog) < n
        /\ pc \in {"resolve", "compute", "return", "returned"} =>
               LET leaves == LeafSet
               IN  /\ Len(submitLog) = n
                   /\ \A idx \in IndicesOf(Lens) :
                          \E c \in leaves :
                              /\ c.ord = submitLog[RowMajor(idx, Lens)]
                              /\ c.kw = KwAt(idx)
        /\ Len(batches) <= 1
        /\ batches # <<>> =>
               /\ Len(batches[1]) = n
               /\ NoRepeat(batches[1])
               /\ Batch(1) = Submitted
        /\ done # {} => (batches # <<>> /\ done \subseteq Batch(1))
        /\ pc \in {"return", "returned"} => done = Submitted
        /\ pbar = 0 /\ yielded = {} /\ getLog = <<>>

C14_Witness ==
    /\ mode = "dask" /\ pc = "compute"
    /\ n = MaxLeaves
    /\ Len(batches) = 1 /\ Len(batches[1]) = n
    /\ done = {3}

\* C15: in process-pool mode the leaves are submitted in nesting order and
\* all n of them before as_completed yields its first future; the drain
\* loop meets each future once, in whatever order the tasks end, failed
\* tasks included, and advances the progress count once for each; nested_get
\* starts only when all n tasks have ended, so that no getter call waits
C15_PhasesInOrder ==
    (mode = "process" /\ pc \notin {"init", "enter"}) =>
        /\ \A k \in 1..Len(submitLog) : submitLog[k] = k
        /\ LET leaves == LeafSet
           IN  \A idx \in IndicesOf(Lens) :
                   RowMajor(idx, Lens) <= Len(submitLog) =>
                       \E c \in leaves :
                           /\ c.ord = submitLog[RowMajor(idx, Lens)]
                           /\ c.kw = KwAt(idx)
        /\ pc = "submit" => (Len(submitLog) < n /\ yielded = {})
        /\ (pc = "drain" \/ yielded # {}) => Len(submitLog) = n
        /\ pc = "drain" => (Cardinality(yielded) < n /\ getLog = <<>>)
        /\ yielded \subseteq Submitted
        /\ yielded \subseteq done
        /\ pbar = Cardinality(yielded)
        /\ f # 0 => f \in yielded
        /\ (pc = "collect" \/ getLog # <<>>) =>
               (yielded = Submitted /\ done = 1..n /\ pbar = n)
        /\ stored = <<>>

C15_Witness ==
    /\ mode = "process" /\ pc = "collect"
    /\ n = MaxLeaves
    /\ fn.failAt = 2
    /\ f = 1
    /\ pbar = n /\ done = 1..n
    /\ getLog = <<1>>

\* C16: a getter built by default_getter calls result first and calls get
\* only on a handle that has no result; on a handle that has one of the
\* two, what the getter gives is what that accessor gives, the task's value
\* or the error the task raised; on a handle that has neither, the call
\* raises the AttributeError of the get attempt (stated of the call as the
\* last getter call leaves it, before the return statement is reached)
C16_GetOnlyWithoutResult ==
    (/\ mode \in {"generic", "mpi", "process"}
     /\ getLog # <<>>
     /\ pc \in {"collect", "return", "raised"}
     /\ pc = "raised" => results = <<>>) =>
        LET handle == PoolAttrs(pool).handle
            leaf == CHOOSE c \in LeafSet : c.ord = getLog[Len(getLog)]
            out == Invoke(fn, leaf)
        IN  /\ tried[1] = "result"
            /\ Len(tried) = 2 => (tried[2] = "get" /\ "result" \notin handle)
            /\ handle # {} =>
                   IF out.ok
                   THEN pc # "raised" /\ got[leaf.ord] = out.val
                   ELSE pc = "raised" /\ error = out.err
            /\ handle = {} =>
                   (pc = "raised" /\ error = Error("AttributeError", "get"))

\* the names that are both a constant and a combination argument
Colliding == (DOMAIN constants) \cap CombNames

\* the calls of fn made or handed on so far carry, for every combination
\* name, the combination value of their index tuple
CombinationValuesPassed ==
    LET leaves == LeafSet
    IN  \A idx \in IndicesOf(Lens) :
            RowMajor(idx, Lens) \in Submitted =>
                \E c \in leaves :
                    /\ c.ord = RowMajor(idx, Lens)
                    /\ \A d \in 1..ndim : c.kw[combos[d][1]] = combos[d][2][idx[d]]

\* C17 as claimed: with a constant named like a combination argument, at
\* whatever nesting level, the call raises no error for it and fn is passed
\* the combination value in place of the constant
C17_LastWriteWins ==
    (pc \notin {"init", "enter"} /\ Colliding # {}) =>
        /\ error # Error("TypeError", "kwargs")
        /\ CombinationValuesPassed

\* C17 amended: a constant named like an outer combination argument (any
\* but the last) is replaced by the combination value in every call of fn
\* and raises nothing; a constant named like the innermost (last)
\* combination argument makes the first innermost call expression raise
\* TypeError, before fn is called or anything is submitted, in every mode
C17_CollisionByLevel ==
    (pc \notin {"init", "enter"} /\ Colliding # {}) =>
        IF combos[ndim][1] \in DOMAIN constants
        THEN /\ pc \in {"submit", "raised"}
             /\ submitLog = <<>> /\ done = {} /\ poolOps = {}
             /\ results = <<>> /\ retval = <<>>
             /\ pc = "raised" => error = Error("TypeError", "kwargs")
        ELSE /\ error # Error("TypeError", "kwargs")
             /\ CombinationValuesPassed
             /\ (pc = "returned" /\ ~split) =>
                    \A idx \in IndicesOf(Lens) :
                        At(retval, idx) = Apply(fn.kind, KwAt(idx))

C17_Witness ==
    /\ pc = "returned" /\ ~split /\ mode = "process"
    /\ Lens = <<2, 2>>
    /\ constants = [a |-> ShadowValue(1), c |-> 300]
    /\ fn.kind = "foo3_scalar"
    /\ retval = << <<311, 321>>, <<312, 322>> >>

\* the leaves the drain loop has counted: those it has met, but for the one
\* whose result() raised in the distributed branch's loop
Drained(leaves) ==
    {c \in leaves : c.ord \in yielded /\ (mode = "process" \/ Invoke(fn, c).ok)}

\* C18: in the distributed, generic-pool, MPI, process-pool and sequential
\* modes the progress count never exceeds n and is n when the call has
\* returned; in the modes with a drain loop it is the number of leaves the
\* loop has counted, and collecting adds nothing to it; in the other modes
\* nothing is drained and it is the number of leaves whose value has been
\* obtained, each obtained once
C18_CountedOnce ==
    (mode \in {"distributed", "generic", "mpi", "process", "sequential"}
        /\ pc \notin {"init", "enter"}) =>
        /\ pbar <= n
        /\ pc \in {"return", "returned"} => pbar = n
        /\ mode \in {"distributed", "process"} =>
               /\ pbar = Cardinality(Drained(LeafSet))
               /\ getLog # <<>> => pbar = n
        /\ mode \in {"generic", "mpi", "sequential"} =>
               /\ yielded = {}
               /\ pbar = Cardinality(DOMAIN got)
               /\ mode = "sequential" \/ (NoRepeat(getLog) /\ pbar <= Len(getLog))

C18_Witness ==
    /\ mode = "process" /\ pc = "returned"
    /\ n = MaxLeaves
    /\ Len(getLog) = n /\ Cardinality(yielded) = n
    /\ pbar = n

====
